---- MODULE Spec2Model ----
(***************************************************************************)
(* Model of the OinioMemorialBridge Soroban contract                       *)
(* (contracts/oinio-memorial-bridge/src/lib.rs).                           *)
(*                                                                         *)
(* The contract's state is the host key/value storage scoped to it: the    *)
(* instance storage (keys MSG, SUPPLY, LETTER) and the persistent storage  *)
(* (keys are admin addresses).  Every entry point runs atomically in one   *)
(* transaction; a panic aborts the transaction and the host discards its   *)
(* writes.  Each step of the model is one invocation of one entry point,   *)
(* with its arguments and the set of addresses the invoker supplies a      *)
(* valid authorization proof for.                                          *)
(***************************************************************************)
EXTENDS Integers, FiniteSets, Sequences, TLC

----------------------------------------------------------------------------
(* Bounds of the model *)

NumAddresses == 2
NumUrls == 3

(* Addresses are opaque host identifiers. *)
Addresses == 1..NumAddresses

(* Candidate letter strings; anchor_letter does not look at their shape. *)
UrlPool ==
    << "https://facebook.com/letter", "", "not a url", "MSG", "https://example.org/b" >>

Urls == { UrlPool[i] : i \in 1..NumUrls }

----------------------------------------------------------------------------
(* Program constants *)

MSG == "MSG"
SUPPLY == "SUPPLY"
LETTER == "LETTER"

MSG_TEXT == "OINIO: For the Beloved Keepers of the Northern Gateway. Not in vain."

SUPPLY_VALUE == 1000000000

----------------------------------------------------------------------------
(* Host storage: a finite map; a key is present iff it is in the domain. *)

EmptyMap == [k \in {} |-> 0]

has(m, k) == k \in DOMAIN m

set(m, k, v) == [x \in (DOMAIN m) \cup {k} |-> IF x = k THEN v ELSE m[x]]

None == [tag |-> "None"]

Some(v) == [tag |-> "Some", val |-> v]

get(m, k) == IF has(m, k) THEN Some(m[k]) ELSE None

(* Outcome of an invocation: Ok carries the return value, Abort is a panic *)
(* that aborts the transaction.                                            *)
Unit == "()"

Ok(v) == [status |-> "ok", val |-> v]

Abort == [status |-> "abort"]

(* Option::unwrap *)
unwrap(opt) == IF opt.tag = "Some" THEN Ok(opt.val) ELSE Abort

(* Address::require_auth: holds iff the invocation carries a valid proof *)
(* for the address.                                                      *)
require_auth(addr, auths) == addr \in auths

----------------------------------------------------------------------------
(* Entry points, as functions of the storage before the call.  Each gives *)
(* the outcome and the storage after the transaction.                      *)

Outcome(r, inst, pers) == [ret |-> r, instance |-> inst, persistent |-> pers]

(* Variants of initialize, each with one plausible slip. *)

initialize_NoGlobalSupply(inst, pers, admin, auths) ==
    IF ~require_auth(admin, auths)
    THEN Outcome(Abort, inst, pers)
    ELSE Outcome(Ok(Unit),
                 set(inst, MSG, MSG_TEXT),
                 set(pers, admin, SUPPLY_VALUE))

initialize_NoAuth(inst, pers, admin, auths) ==
    Outcome(Ok(Unit),
            set(set(inst, MSG, MSG_TEXT), SUPPLY, SUPPLY_VALUE),
            set(pers, admin, SUPPLY_VALUE))

initialize_Guarded(inst, pers, admin, auths) ==
    IF ~require_auth(admin, auths) \/ has(inst, MSG)
    THEN Outcome(Abort, inst, pers)
    ELSE Outcome(Ok(Unit),
                 set(set(inst, MSG, MSG_TEXT), SUPPLY, SUPPLY_VALUE),
                 set(pers, admin, SUPPLY_VALUE))

initialize_Fresh(inst, pers, admin, auths) ==
    IF ~require_auth(admin, auths)
    THEN Outcome(Abort, inst, pers)
    ELSE Outcome(Ok(Unit),
                 set(set(EmptyMap, MSG, MSG_TEXT), SUPPLY, SUPPLY_VALUE),
                 set(pers, admin, SUPPLY_VALUE))

initialize_AdminTypo(inst, pers, admin, auths) ==
    IF ~require_auth(admin, auths)
    THEN Outcome(Abort, inst, pers)
    ELSE Outcome(Ok(Unit),
                 set(set(inst, MSG, MSG_TEXT), SUPPLY, SUPPLY_VALUE),
                 set(pers, admin, 100000000))

initialize(inst, pers, admin, auths) ==
    IF ~require_auth(admin, auths)
    THEN Outcome(Abort, inst, pers)
    ELSE Outcome(Ok(Unit),
                 set(set(inst, MSG, MSG_TEXT), SUPPLY, SUPPLY_VALUE),
                 set(pers, admin, SUPPLY_VALUE))

(* Variants of anchor_letter. *)

anchor_letter_FirstWins(inst, pers, letter_url) ==
    IF has(inst, LETTER)
    THEN Outcome(Ok(Unit), inst, pers)
    ELSE Outcome(Ok(Unit), set(inst, LETTER, letter_url), pers)

anchor_letter_RequiresInit(inst, pers, letter_url) ==
    IF ~has(inst, MSG)
    THEN Outcome(Abort, inst, pers)
    ELSE Outcome(Ok(Unit), set(inst, LETTER, letter_url), pers)

anchor_letter_WrongKey(inst, pers, letter_url) ==
    Outcome(Ok(Unit), set(inst, MSG, letter_url), pers)

anchor_letter(inst, pers, letter_url) ==
    Outcome(Ok(Unit), set(inst, LETTER, letter_url), pers)

get_message(inst) == unwrap(get(inst, MSG))

get_letter(inst) == Ok(get(inst, LETTER))

(* Variant of get_supply: unwrap_or_default instead of unwrap. *)
get_supply_OrDefault(inst) ==
    IF has(inst, SUPPLY) THEN Ok(inst[SUPPLY]) ELSE Ok(0)

get_supply(inst) == unwrap(get(inst, SUPPLY))

----------------------------------------------------------------------------
(* State *)

VARIABLES
    instance,     \* env.storage().instance()
    persistent,   \* env.storage().persistent()
    call,         \* the most recent invocation: entry point and arguments
    ret,          \* its outcome
    initialized,  \* history: some initialize call has succeeded
    initAdmins,   \* history: the admins of the successful initialize calls
    lastLetter,   \* history: argument of the most recent anchor_letter call
    anchoredUrls  \* history: the arguments of all anchor_letter calls so far

vars ==
    << instance, persistent, call, ret, initialized, initAdmins, lastLetter,
       anchoredUrls >>

Init ==
    /\ instance = EmptyMap
    /\ persistent = EmptyMap
    /\ call = [op |-> "none"]
    /\ ret = Ok(Unit)
    /\ initialized = FALSE
    /\ initAdmins = {}
    /\ lastLetter = None
    /\ anchoredUrls = {}

Initialize ==
    \E admin \in Addresses, auths \in SUBSET Addresses :
        LET o == initialize(instance, persistent, admin, auths) IN
        /\ instance' = o.instance
        /\ persistent' = o.persistent
        /\ call' = [op |-> "initialize", admin |-> admin, auths |-> auths]
        /\ ret' = o.ret
        /\ initialized' = (initialized \/ o.ret.status = "ok")
        /\ initAdmins' = IF o.ret.status = "ok" THEN initAdmins \cup {admin}
                                                ELSE initAdmins
        /\ UNCHANGED << lastLetter, anchoredUrls >>

AnchorLetter ==
    \E letter_url \in Urls, auths \in SUBSET Addresses :
        LET o == anchor_letter(instance, persistent, letter_url) IN
        /\ instance' = o.instance
        /\ persistent' = o.persistent
        /\ call' = [op |-> "anchor_letter", url |-> letter_url, auths |-> auths]
        /\ ret' = o.ret
        /\ lastLetter' = Some(letter_url)
        /\ anchoredUrls' = anchoredUrls \cup {letter_url}
        /\ UNCHANGED << initialized, initAdmins >>

GetMessage ==
    /\ call' = [op |-> "get_message"]
    /\ ret' = get_message(instance)
    /\ UNCHANGED << instance, persistent, initialized, initAdmins, lastLetter,
                    anchoredUrls >>

GetLetter ==
    /\ call' = [op |-> "get_letter"]
    /\ ret' = get_letter(instance)
    /\ UNCHANGED << instance, persistent, initialized, initAdmins, lastLetter,
                    anchoredUrls >>

GetSupply ==
    /\ call' = [op |-> "get_supply"]
    /\ ret' = get_supply(instance)
    /\ UNCHANGED << instance, persistent, initialized, initAdmins, lastLetter,
                    anchoredUrls >>

Next ==
    \/ Initialize
    \/ AnchorLetter
    \/ GetMessage
    \/ GetLetter
    \/ GetSupply

Spec == Init /\ [][Next]_vars

----------------------------------------------------------------------------
(* Properties *)

(* C1: in every state reached after a successful initialize call, whatever *)
(* calls follow, get_supply() returns exactly 1,000,000,000 and            *)
(* get_message() returns the fixed memorial string, without aborting.      *)
C1_GettersAfterInitialize ==
    initialized =>
        /\ get_supply(instance) = Ok(SUPPLY_VALUE)
        /\ get_message(instance) = Ok(MSG_TEXT)
        /\ (call.op = "get_supply" => ret = Ok(SUPPLY_VALUE))
        /\ (call.op = "get_message" => ret = Ok(MSG_TEXT))

C1_Witness ==
    /\ initialized
    /\ Cardinality(initAdmins) >= 2
    /\ Cardinality(anchoredUrls) >= 2
    /\ call.op = "get_supply"
    /\ ret = Ok(SUPPLY_VALUE)
    /\ get_message(instance) = Ok(MSG_TEXT)

(* C2: get_letter() never aborts; it returns absent while anchor_letter    *)
(* has never been called, and afterwards exactly the string of the most    *)
(* recent anchor_letter call, whatever other calls are interleaved.        *)
C2_GetLetterLastWriteWins ==
    /\ (lastLetter = None <=> anchoredUrls = {})
    /\ get_letter(instance) = Ok(lastLetter)
    /\ (call.op = "get_letter" => ret = Ok(lastLetter))

C2_Witness ==
    /\ call.op = "get_letter"
    /\ Cardinality(anchoredUrls) >= 2
    /\ initialized
    /\ ret = Ok(Some(UrlPool[1]))

(* C3: in every state where no initialize call has succeeded yet, also     *)
(* after anchor_letter calls, get_supply() and get_message() abort.        *)
C3_GettersAbortBeforeInitialize ==
    ~initialized =>
        /\ get_supply(instance) = Abort
        /\ get_message(instance) = Abort
        /\ (call.op \in {"get_supply", "get_message"} => ret = Abort)

C3_Witness ==
    /\ ~initialized
    /\ has(instance, LETTER)
    /\ call.op = "get_supply"
    /\ ret = Abort

(* C4: an initialize(admin) call without a valid authorization proof for   *)
(* admin aborts and leaves every storage slot as it was before the call.   *)
C4_UnauthorizedInitializeAborts ==
    [][ (call'.op = "initialize" /\ call'.admin \notin call'.auths) =>
            /\ ret' = Abort
            /\ instance' = instance
            /\ persistent' = persistent ]_vars

C4_Witness ==
    /\ call.op = "initialize"
    /\ call.admin \notin call.auths
    /\ call.auths # {}
    /\ ret = Abort
    /\ initialized
    /\ has(instance, LETTER)

(* C5: no guard prevents re-initialization: every authorized initialize    *)
(* call succeeds, also in an already initialized state, and leaves the     *)
(* Message and the Supply holding that call's values.                      *)
C5_ReinitializeSucceeds ==
    [][ (call'.op = "initialize" /\ call'.admin \in call'.auths) =>
            /\ ret' = Ok(Unit)
            /\ get(instance', MSG) = Some(MSG_TEXT)
            /\ get(instance', SUPPLY) = Some(SUPPLY_VALUE)
            /\ get(persistent', call'.admin) = Some(SUPPLY_VALUE)
            /\ initialized' ]_vars

C5_Witness ==
    /\ call.op = "initialize"
    /\ ret = Ok(Unit)
    /\ Cardinality(initAdmins) >= 2
    /\ initAdmins \subseteq DOMAIN persistent
    /\ get(instance, MSG) = Some(MSG_TEXT)
    /\ get(instance, SUPPLY) = Some(SUPPLY_VALUE)

(* C6: anchor_letter(url) needs no authorization and no prior              *)
(* initialization: every call succeeds and leaves the letter reference     *)
(* equal to url.                                                           *)
C6_AnchorLetterUnconditional ==
    call.op = "anchor_letter" =>
        /\ ret = Ok(Unit)
        /\ get(instance, LETTER) = Some(call.url)

C6_Witness ==
    /\ call.op = "anchor_letter"
    /\ call.auths = {}
    /\ ~initialized
    /\ Cardinality(anchoredUrls) >= 2
    /\ get(instance, LETTER) = Some(call.url)

(* C7: nothing is ever deleted and only the letter reference changes after *)
(* creation: a present Message, Supply or admin-keyed record stays present *)
(* with the same value over every call, and a present letter reference     *)
(* stays present.                                                          *)
C7_NoDeletionOnlyLetterMutates ==
    [][ /\ \A k \in DOMAIN instance :
              /\ has(instance', k)
              /\ (k # LETTER => instance'[k] = instance[k])
        /\ \A a \in DOMAIN persistent :
              /\ has(persistent', a)
              /\ persistent'[a] = persistent[a] ]_vars

C7_Witness ==
    /\ call.op = "initialize"
    /\ ret = Ok(Unit)
    /\ Cardinality(initAdmins) >= 2
    /\ has(instance, LETTER)
    /\ has(instance, MSG)
    /\ has(instance, SUPPLY)

(* C8: the two supply recordings never diverge: every admin-keyed record   *)
(* that is present equals the value under SUPPLY, and one is present only  *)
(* if SUPPLY and MSG are present.                                          *)
C8_SupplyRecordsAgree ==
    \A a \in DOMAIN persistent :
        /\ has(instance, SUPPLY)
        /\ has(instance, MSG)
        /\ persistent[a] = instance[SUPPLY]

C8_Witness ==
    /\ Cardinality(DOMAIN persistent) >= 2
    /\ \A a \in DOMAIN persistent : persistent[a] = instance[SUPPLY]

(* C9: storage never holds more than the three slots MSG, SUPPLY, LETTER   *)
(* and one admin-keyed slot.                                               *)
C9_AtMostOneAdminSlot ==
    /\ DOMAIN instance \subseteq {MSG, SUPPLY, LETTER}
    /\ Cardinality(DOMAIN persistent) <= 1

(* C10 as stated: while no initialize call has succeeded, none of the      *)
(* Message, the Supply, the admin-keyed record or the letter reference is  *)
(* present.                                                                *)
C10_NothingBeforeInitialize ==
    ~initialized =>
        /\ DOMAIN instance = {}
        /\ DOMAIN persistent = {}

(* C10, amended: while no initialize call has succeeded, none of the       *)
(* Message, the Supply or an admin-keyed record is present; the letter     *)
(* reference is created by anchor_letter, and is present exactly when      *)
(* anchor_letter has been called.                                          *)
C10_CreatedByInitializeExceptLetter ==
    /\ ~initialized =>
          /\ ~has(instance, MSG)
          /\ ~has(instance, SUPPLY)
          /\ DOMAIN persistent = {}
    /\ has(instance, LETTER) <=> anchoredUrls # {}

C10_Witness ==
    /\ ~initialized
    /\ has(instance, LETTER)
    /\ call.op = "initialize"
    /\ ret = Abort

====
